---------------------------- MODULE Spec2Model ----------------------------
(***************************************************************************)
(* Real-time audio effects demo (RTProcessing): the circular history       *)
(* buffer, the RTProcessor push/compute/push contract, the guitar effects, *)
(* and the demo program in which the PortAudio callback thread and the     *)
(* keyboard-polling main loop share the closure variable `processor`.      *)
(*                                                                         *)
(* Numbers.  Python floats are modelled as decimal fixed-point numbers     *)
(* with SCALE units per 1.0; a product or quotient is rounded toward zero  *)
(* to that precision (binary64 rounds to 53 bits instead).  Angles are     *)
(* kept as multiples of pi (np.pi * 0.06 is the fixed-point number 0.06),  *)
(* and np.cos is Bhaskara's rational approximation of the cosine.  The     *)
(* demo's RATE (16000) and the 32-bit sample width are scaled down to      *)
(* ModelRate and SampleBits so that the histories of RATE + 1 slots and    *)
(* the arithmetic stay within what can be enumerated.                      *)
(***************************************************************************)
EXTENDS Integers, Sequences, FiniteSets, TLC

(***************************************************************************)
(* Bounds of the model                                                     *)
(***************************************************************************)
ModelRate == 7
SampleBits == 11
MaxFrames == 1
MaxSamples == 3
MaxSwaps == 1
MaxRingDelay == 2
MaxPushes == 5
MaxShuffles == 1
MaxCalls == 3

(***************************************************************************)
(* Fixed-point arithmetic standing for Python's float                      *)
(***************************************************************************)
SCALE == 10 * 10 * 10

Abs(v) == IF v < 0 THEN -v ELSE v

\* integer quotient rounded toward zero (TLA+'s \div rounds down)
TruncDiv(p, q) == IF p >= 0 THEN p \div q ELSE -((-p) \div q)

\* int -> float
FromInt(i) == i * SCALE

\* float * float: the product rounded toward zero, computed on the magnitudes
\* in two parts so that no intermediate value exceeds the result by more
\* than a factor of SCALE
Mul(p, q) ==
    LET ap == Abs(p)
        aq == Abs(q)
        hi == IF ap >= aq THEN ap ELSE aq
        lo == IF ap >= aq THEN aq ELSE ap
        m  == (hi \div SCALE) * lo + ((hi % SCALE) * lo) \div SCALE
    IN  IF (p < 0) = (q < 0) THEN m ELSE -m

\* float / float
Div(p, q) == IF q > 0 THEN TruncDiv(p * SCALE, q) ELSE -TruncDiv(p * SCALE, -q)

\* int(float): truncation toward zero
IntOf(v) == TruncDiv(v, SCALE)

\* Bhaskara's approximation of cos(t * pi) for a fixed-point t in [0, 0.5]
Bhaskara(t) == TruncDiv((SCALE * SCALE - 4 * t * t) * SCALE, SCALE * SCALE + t * t)

\* np.cos(a * np.pi) for a fixed-point a: reduction to one turn, then to a
\* quarter turn
Cos(a) ==
    LET r == a % (2 * SCALE)
    IN  IF 2 * r <= SCALE THEN Bhaskara(r)
        ELSE IF 2 * r <= 3 * SCALE THEN -Bhaskara(Abs(r - SCALE))
        ELSE Bhaskara(2 * SCALE - r)

\* the largest sample of the stream's sample format (paInt32 in the demo)
SAMPLE_MAX == 2 ^ (SampleBits - 1) - 1
SAMPLE_MIN == -(2 ^ (SampleBits - 1))

(***************************************************************************)
(* rtprocessor.py: CircularBuffer                                          *)
(***************************************************************************)
Zeros(len) == [i \in 0 .. len - 1 |-> 0]

AllZero(f) == \A i \in DOMAIN f : f[i] = 0

\* __init__ that allocates the array without clearing it
CircularBuffer_uncleared(length) ==
    [length |-> length + 1, buf |-> [i \in 0 .. length |-> SCALE], ix |-> length]

\* CircularBuffer.__init__(length)
CircularBuffer(length) ==
    [length |-> length + 1, buf |-> Zeros(length + 1), ix |-> length]

\* push with the two statements exchanged: the write goes to the old cursor
Push_stale(cb, v) ==
    [cb EXCEPT !.ix = (cb.ix + 1) % cb.length, !.buf = [cb.buf EXCEPT ![cb.ix] = v]]

\* CircularBuffer.push(x)
Push(cb, v) ==
    LET ix == (cb.ix + 1) % cb.length
    IN  [cb EXCEPT !.ix = ix, !.buf = [cb.buf EXCEPT ![ix] = v]]

\* get with the offset added to the cursor instead of subtracted
Get_forward(cb, k) == cb.buf[(cb.ix + cb.length + k) % cb.length]

\* get that holds an offset outside 0 .. length - 1 at the nearest end
Get_saturating(cb, k) ==
    LET j == IF k > cb.length - 1 THEN cb.length - 1 ELSE IF k < 0 THEN 0 ELSE k
    IN  cb.buf[(cb.ix + cb.length - j) % cb.length]

\* the index get(n) computes; np.mod takes the sign of the divisor, as % does
GetIndex(cb, k) == (cb.ix + cb.length - k) % cb.length

\* CircularBuffer.get(n)
Get(cb, k) == cb.buf[(cb.ix + cb.length - k) % cb.length]


(***************************************************************************)
(* rtprocessor.py, guitar_effects.py: the processing classes               *)
(***************************************************************************)
PROCESSING_MODULE == "guitar_effects"

\* every class visible in the namespace of guitar_effects, with the module
\* that defines it and its `order` attribute
ModuleClasses ==
    { [name |-> "RTProcessor",    module |-> "rtprocessor",    order |-> 1000000],
      [name |-> "Delta",          module |-> "rtprocessor",    order |-> 0],
      [name |-> "Echo",           module |-> "guitar_effects", order |-> 10],
      [name |-> "Recursive_Echo", module |-> "guitar_effects", order |-> 20],
      [name |-> "Natural_Echo",   module |-> "guitar_effects", order |-> 30],
      [name |-> "Reverb",         module |-> "guitar_effects", order |-> 40],
      [name |-> "Biquad",         module |-> "guitar_effects", order |-> 50],
      [name |-> "Fuzz",           module |-> "guitar_effects", order |-> 60],
      [name |-> "Wah",            module |-> "guitar_effects", order |-> 70],
      [name |-> "Tremolo",        module |-> "guitar_effects", order |-> 80] }

\* sorted(p): the pairs (order, name) in ascending order (the orders of the
\* classes are pairwise distinct, so the names never decide)
RECURSIVE Sorted(_)
Sorted(S) ==
    IF S = {} THEN << >>
    ELSE LET least == CHOOSE e \in S : \A f \in S : e[1] <= f[1]
         IN  << least >> \o Sorted(S \ {least})

\* inspect.getmembers(module, inspect.isclass): the names of the classes of
\* the module's namespace, which getmembers returns sorted by name
GetMembers ==
    << "Biquad", "Delta", "Echo", "Fuzz", "Natural_Echo", "RTProcessor",
       "Recursive_Echo", "Reverb", "Tremolo", "Wah" >>

ClassNamed(nm) == CHOOSE c \in ModuleClasses : c.name = nm

\* the scan with the sort left out: the pairs in the order of discovery
ScanOf_unsorted(ms) ==
    LET own == SelectSeq(ms, LAMBDA nm : ClassNamed(nm).module = PROCESSING_MODULE)
    IN  [i \in 1 .. Len(own) |-> << ClassNamed(own[i]).order, own[i] >>]

\* lines 54-56 for a list ms of members: the classes defined by the module
\* itself, as pairs (order, name), sorted
ScanOf(ms) ==
    Sorted({ << ClassNamed(ms[i]).order, ms[i] >> :
               i \in { j \in DOMAIN ms : ClassNamed(ms[j]).module = PROCESSING_MODULE } })

\* lines 58-60 for a list ms of members
ChoicesOf(ms) ==
    LET p == ScanOf(ms)
    IN  [ i \in 0 .. Len(p) |-> IF i = 0 THEN "Delta" ELSE p[i][2] ]

\* main: the list p and the dictionary choices
ScannedClasses == ScanOf(GetMembers)

choices ==
    [ i \in 0 .. Len(ScannedClasses) |-> IF i = 0 THEN "Delta" ELSE ScannedClasses[i][2] ]

\* parameters the constructors set (fixed-point; angles as multiples of pi)
Echo_a == 1000
Echo_b == 700
Echo_c == 500
Echo_norm_unit == FromInt(1)
Echo_norm == Div(FromInt(1), Echo_a + Echo_b + Echo_c)
Echo_delay == 300
Recursive_Echo_a == 700
Recursive_Echo_norm == FromInt(1) - Mul(Recursive_Echo_a, Recursive_Echo_a)
Natural_Echo_a == 800
Natural_Echo_l == 700
Reverb_a == 800
Reverb_norm == 500
Reverb_delay == 20
Biquad_pm == 980
Biquad_pp == 100
Biquad_zm == 900
Biquad_zp == 60
Biquad_b1 == Mul(Mul(FromInt(-2), Biquad_zm), Cos(Biquad_zp))
Biquad_b2 == Mul(Biquad_zm, Biquad_zm)
Biquad_a1 == Mul(Mul(FromInt(-2), Biquad_pm), Cos(Biquad_pp))
Biquad_a2 == Mul(Biquad_pm, Biquad_pm)
Biquad_norm == 100
Fuzz_T == 5
Fuzz_G == 5
Fuzz_limit == Mul(FromInt(SAMPLE_MAX), Fuzz_T)
Wah_pole_delta == 300
Wah_lfo == 3
Wah_pole_mag == 990
Wah_pole_phase == 40
Wah_zero_mag == 900
Wah_zero_phase == 60
Wah_b2 == Mul(Wah_zero_mag, Wah_zero_mag)
Wah_a2 == Mul(Wah_pole_mag, Wah_pole_mag)
Wah_gain == 300
Tremolo_depth == 900
Tremolo_lfo == 5

\* every class but the echoes left with the default max_delay of the base
\* class
MaxDelayOf_default(cls, rate) ==
    IF cls \in {"Echo", "Recursive_Echo", "Natural_Echo", "Reverb"} THEN rate ELSE 1

\* the max_delay each constructor passes to RTProcessor.__init__
MaxDelayOf(cls, rate) ==
    CASE cls \in {"Echo", "Recursive_Echo", "Natural_Echo", "Reverb"} -> rate
      [] cls \in {"Biquad", "Wah"} -> 2
      [] OTHER -> 1

\* an instance before __init__ has run: no attribute is set
NewObject(cls) ==
    [cls |-> cls, stage |-> "new", SF |-> 0,
     x |-> [length |-> 0, buf |-> << >>, ix |-> 0],
     y |-> [length |-> 0, buf |-> << >>, ix |-> 0],
     N |-> 0, phi |-> 0, omega |-> 0, b1 |-> 0, a1 |-> 0]

\* RTProcessor.__init__(rate, channels, max_delay)
RTProcessor_init(self, rate, max_delay) ==
    [self EXCEPT !.stage = "base", !.SF = rate,
                 !.x = CircularBuffer(max_delay), !.y = CircularBuffer(max_delay)]

\* the statements of each class's __init__ after the call of the base __init__
Subclass_init(self) ==
    LET sf == FromInt(self.SF)
        p  == [self EXCEPT !.stage = "done"]
    IN  CASE self.cls \in {"Echo", "Recursive_Echo", "Natural_Echo"} ->
               [p EXCEPT !.N = IntOf(Mul(Echo_delay, sf))]
          [] self.cls = "Reverb" ->
               [p EXCEPT !.N = IntOf(Mul(Reverb_delay, sf))]
          [] self.cls = "Wah" ->
               [p EXCEPT !.phi = Div(Mul(FromInt(Wah_lfo), FromInt(2)), sf), !.omega = 0]
          [] self.cls = "Tremolo" ->
               [p EXCEPT !.phi = Div(FromInt(Tremolo_lfo * 2), sf), !.omega = 0]
          [] OTHER -> p

\* getattr(processing_module, cls)(RATE, CHANNELS), run to completion
Construct(cls, rate) ==
    Subclass_init(RTProcessor_init(NewObject(cls), rate, MaxDelayOf(cls, rate)))

\* the second-order section shared by Biquad._process and Wah._process
SecondOrder(self, b1, b2, a1, a2) ==
    Get(self.x, 0) + Mul(b1, Get(self.x, 1)) + Mul(b2, Get(self.x, 2))
        - Mul(a1, Get(self.y, 1)) - Mul(a2, Get(self.y, 2))

\* the clamp without its second test
Fuzz_clip_upper(v) == IF v > Fuzz_limit THEN Fuzz_limit ELSE v

\* Fuzz._process: the two tests in the order of the code
Fuzz_clip(v) ==
    LET y1 == IF v > Fuzz_limit THEN Fuzz_limit ELSE v
    IN  IF y1 < -Fuzz_limit THEN -Fuzz_limit ELSE y1

\* Wah._process: d is computed from omega before omega is advanced
Wah_process(self) ==
    LET d  == Div(Mul(Wah_pole_delta, FromInt(1) + Cos(self.omega)), FromInt(2))
        b1 == Mul(Mul(FromInt(-2), Wah_zero_mag), Cos(Wah_zero_phase + d))
        a1 == Mul(Mul(FromInt(-2), Wah_pole_mag), Cos(Wah_pole_phase + d))
    IN  [ret  |-> Mul(Wah_gain, SecondOrder(self, b1, Wah_b2, a1, Wah_a2)),
         self |-> [self EXCEPT !.omega = self.omega + self.phi, !.b1 = b1, !.a1 = a1]]

\* Tremolo._process with the phase kept within one turn (2 pi)
Tremolo_process_wrapped(self) ==
    LET omega == (self.omega + self.phi) % (2 * SCALE)
        gain  == (FromInt(1) - Tremolo_depth)
                   + Mul(Mul(Tremolo_depth, SCALE \div 2), FromInt(1) + Cos(omega))
    IN  [ret  |-> Mul(gain, Get(self.x, 0)),
         self |-> [self EXCEPT !.omega = omega]]

\* Tremolo._process: omega is advanced first
Tremolo_process(self) ==
    LET omega == self.omega + self.phi
        gain  == (FromInt(1) - Tremolo_depth)
                   + Mul(Mul(Tremolo_depth, SCALE \div 2), FromInt(1) + Cos(omega))
    IN  [ret  |-> Mul(gain, Get(self.x, 0)),
         self |-> [self EXCEPT !.omega = omega]]

\* _process returning the input of the call before
Base_process_delayed(self) == Get(self.x, 1)

\* RTProcessor._process, which Delta inherits
Base_process(self) == Get(self.x, 0)

\* the offsets _process passes to self.x.get and to self.y.get
XOffsets(self) ==
    CASE self.cls = "Echo" -> {0, self.N, 2 * self.N}
      [] self.cls = "Natural_Echo" -> {0, 1}
      [] self.cls = "Reverb" -> {0, self.N}
      [] self.cls \in {"Biquad", "Wah"} -> {0, 1, 2}
      [] OTHER -> {0}

YOffsets(self) ==
    CASE self.cls \in {"Recursive_Echo", "Reverb"} -> {self.N}
      [] self.cls = "Natural_Echo" -> {1, self.N}
      [] self.cls \in {"Biquad", "Wah"} -> {1, 2}
      [] OTHER -> {}

\* self._process(): the value returned and the instance as it leaves it
Compute(self) ==
    CASE self.cls = "Echo" ->
           [ret |-> Mul(Echo_norm, Mul(Echo_a, Get(self.x, 0))
                                     + Mul(Echo_b, Get(self.x, self.N))
                                     + Mul(Echo_c, Get(self.x, 2 * self.N))),
            self |-> self]
      [] self.cls = "Recursive_Echo" ->
           [ret |-> Mul(Recursive_Echo_norm,
                        Get(self.x, 0) + Mul(Recursive_Echo_a, Get(self.y, self.N))),
            self |-> self]
      [] self.cls = "Natural_Echo" ->
           [ret |-> Get(self.x, 0) - Mul(Natural_Echo_l, Get(self.x, 1))
                      + Mul(Natural_Echo_l, Get(self.y, 1))
                      + Mul(Mul(Natural_Echo_a, FromInt(1) - Natural_Echo_l), Get(self.y, self.N)),
            self |-> self]
      [] self.cls = "Reverb" ->
           [ret |-> Mul(Reverb_norm, -Get(self.x, 0) + Get(self.x, self.N)
                                        + Mul(Reverb_a, Get(self.y, self.N))),
            self |-> self]
      [] self.cls = "Biquad" ->
           [ret |-> Mul(Biquad_norm, SecondOrder(self, Biquad_b1, Biquad_b2, Biquad_a1, Biquad_a2)),
            self |-> self]
      [] self.cls = "Fuzz" ->
           [ret |-> Fuzz_G * Fuzz_clip(Get(self.x, 0)), self |-> self]
      [] self.cls = "Wah" -> Wah_process(self)
      [] self.cls = "Tremolo" -> Tremolo_process(self)
      [] OTHER -> [ret |-> Base_process(self), self |-> self]

\* RTProcessor.process, statement by statement
XPush(self, sample) == [self EXCEPT !.x = Push(self.x, FromInt(sample))]
YPush(self, y) == [self EXCEPT !.y = Push(self.y, y)]

\* process that returns the result without pushing it into y
Process_noYPush(self, sample) ==
    LET c == Compute(XPush(self, sample))
    IN  [ret |-> c.ret, self |-> c.self]

\* RTProcessor.process(sample) as one call
Process(self, sample) ==
    LET c == Compute(XPush(self, sample))
    IN  [ret |-> c.ret, self |-> YPush(c.self, c.ret)]

\* np.int32(y): the fraction is dropped; a value outside the sample format is
\* undefined in the C conversion, and the builds either wrap it or yield the
\* most negative sample
ToInt32(y) ==
    LET t == IntOf(y)
        w == 2 ^ SampleBits
    IN  IF t >= SAMPLE_MIN /\ t <= SAMPLE_MAX THEN {t}
        ELSE {((t - SAMPLE_MIN) % w) + SAMPLE_MIN, SAMPLE_MIN}

(***************************************************************************)
(* demo.py: the program                                                    *)
(***************************************************************************)
VARIABLES
    os_name,      \* os.name: decides whether the global WINDOWS is ever bound
    pcMain,       \* where main() is
    key,          \* main's local `key`
    building,     \* the instance whose constructor main is running (0: none)
    heap,         \* the processor instances created so far
    processor,    \* the closure cell main and callback share (0: not bound yet)
    stream,       \* the PortAudio stream: "closed", "running" or "aborted"
    pcAudio,      \* where the callback is
    audio_data,   \* callback's array of samples
    n,            \* callback's loop index (1-based)
    self_,        \* the instance whose process method the callback is running
    captured,     \* history: the samples handed to the callback, block after block
    played,       \* history: the samples of the blocks the callback returned
    handled,      \* history: one record per completed process call
    published,    \* history: the instances that have been bound to `processor`
    writes,       \* history: who assigned to an attribute of which instance
    ring,         \* a CircularBuffer exercised on its own
    pushed,       \* history: the values pushed into ring
    members,      \* the scan on its own: the class names as discovered
    shuffles,     \* how many exchanges made the order of members
    picked,       \* the scan on its own: the last index looked up, and the class
    unit,         \* a processor exercised on its own
    before,       \* history: unit as it was when its last process call began
    fed,          \* history: the samples unit's process was called with
    got           \* history: the values unit's process returned

progVars == << os_name, pcMain, key, building, heap, processor, stream, pcAudio,
               audio_data, n, self_, captured, played, handled,
               published, writes >>
ringVars == << ring, pushed >>
scanVars == << members, shuffles, picked >>
unitVars == << unit, before, fed, got >>
harnessVars == << ringVars, scanVars, unitVars >>
vars == << progVars, harnessVars >>

RATE == ModelRate
ORD_q == 113
ORD_0 == 48

\* the bytes msvcrt.getch() is made to return, and 0 for "no key pressed"
Keys == {0, ORD_q} \cup (ORD_0 .. ORD_0 + 9)

\* the sample values the audio device is made to deliver
InputSamples == {0, 1}

Blocks == UNION { [1 .. len -> InputSamples] : len \in 1 .. MaxFrames }

ProgInit ==
    /\ os_name \in {"nt", "posix"}
    /\ pcMain = "open"
    /\ key = 0
    /\ building = 0
    /\ heap = << >>
    /\ processor = 0
    /\ stream = "closed"
    /\ pcAudio = "idle"
    /\ audio_data = << >>
    /\ n = 0
    /\ self_ = 0
    /\ captured = << >>
    /\ played = << >>
    /\ handled = << >>
    /\ published = {}
    /\ writes = {}

RingIdle == ring = CircularBuffer(0) /\ pushed = << >>

ScanIdle ==
    /\ members = GetMembers
    /\ shuffles = 0
    /\ picked = [key |-> -1, cls |-> ""]

UnitIdle ==
    /\ unit = NewObject("Delta")
    /\ before = unit
    /\ fed = << >>
    /\ got = << >>

Init == ProgInit /\ RingIdle /\ ScanIdle /\ UnitIdle

audioVars == << pcAudio, audio_data, n, self_, captured, played, handled >>

\* lines 75-88: pa.open(...) with PyAudio's default start=True starts the
\* stream at once; then key = 0
OpenStream ==
    /\ pcMain = "open"
    /\ stream' = "running"
    /\ key' = 0
    /\ pcMain' = "new89"
    /\ UNCHANGED << os_name, building, heap, processor, published, writes, audioVars, harnessVars >>

\* the new instance bound to `processor` as soon as it exists, before its
\* __init__ has run
New_early(here, next) ==
    /\ pcMain = here
    /\ heap' = Append(heap, NewObject(choices[key]))
    /\ building' = Len(heap) + 1
    /\ processor' = Len(heap) + 1
    /\ published' = published \cup {Len(heap) + 1}
    /\ pcMain' = next
    /\ UNCHANGED << os_name, key, stream, writes, audioVars, harnessVars >>

\* getattr(processing_module, choices[key]): the class is called and the new
\* instance exists, with no attribute yet
New(here, next) ==
    /\ pcMain = here
    /\ heap' = Append(heap, NewObject(choices[key]))
    /\ building' = Len(heap) + 1
    /\ pcMain' = next
    /\ UNCHANGED << os_name, key, processor, stream, published, writes, audioVars, harnessVars >>

\* __init__ that carries the most recent input and output of the instance
\* bound to `processor` over into the histories of the new instance
RunInit_carry(here, next) ==
    /\ pcMain = here
    /\ heap' = [heap EXCEPT ![building] =
                   LET fresh == Subclass_init(RTProcessor_init(@, RATE, MaxDelayOf(@.cls, RATE)))
                   IN  IF processor = 0 THEN fresh
                       ELSE [fresh EXCEPT !.x = Push(fresh.x, Get(heap[processor].x, 0)),
                                          !.y = Push(fresh.y, Get(heap[processor].y, 0))]]
    /\ writes' = writes \cup { << "main", building, building \in published >> }
    /\ pcMain' = next
    /\ UNCHANGED << os_name, key, building, processor, stream, published, audioVars, harnessVars >>

\* the selection re-initialises the instance bound to `processor` in place
\* instead of the new one
RunInit_inplace(here, next) ==
    /\ pcMain = here
    /\ LET target == IF processor = 0 THEN building ELSE processor
       IN  /\ heap' = [heap EXCEPT
                         ![target] = Construct(heap[building].cls, RATE),
                         ![building] = IF target = building THEN Construct(@.cls, RATE)
                                       ELSE [@ EXCEPT !.stage = "done"]]
           /\ writes' = writes \cup { << "main", target, target \in published >> }
    /\ pcMain' = next
    /\ UNCHANGED << os_name, key, building, processor, stream, published, audioVars, harnessVars >>

\* the class's __init__(RATE, CHANNELS): the base class's __init__, then the
\* class's own parameters
RunInit(here, next) ==
    /\ pcMain = here
    /\ heap' = [heap EXCEPT ![building] =
                   Subclass_init(RTProcessor_init(@, RATE, MaxDelayOf(@.cls, RATE)))]
    /\ writes' = writes \cup { << "main", building, building \in published >> }
    /\ pcMain' = next
    /\ UNCHANGED << os_name, key, building, processor, stream, published, audioVars, harnessVars >>

\* the assignment skipped when the instance bound to `processor` is already
\* of the class selected
Store_keep(here, next) ==
    /\ pcMain = here
    /\ LET kept == IF processor # 0 /\ heap[processor].cls = heap[building].cls
                   THEN processor ELSE building
       IN  /\ processor' = kept
           /\ published' = published \cup {kept}
    /\ building' = 0
    /\ pcMain' = next
    /\ UNCHANGED << os_name, key, heap, stream, writes, audioVars, harnessVars >>

\* processor = <the instance the constructor returned>
Store(here, next) ==
    /\ pcMain = here
    /\ processor' = building
    /\ published' = published \cup {building}
    /\ building' = 0
    /\ pcMain' = next
    /\ UNCHANGED << os_name, key, heap, stream, writes, audioVars, harnessVars >>

\* line 94: the stream is no longer active and the loop ends
LoopEnds ==
    /\ pcMain = "poll"
    /\ stream # "running"
    /\ pcMain' = "stop"
    /\ UNCHANGED << os_name, key, building, heap, processor, stream, published, writes, audioVars, harnessVars >>

\* poll_keyboard() where the global WINDOWS was never bound: NameError leaves
\* main, and the process ends with the stream
PollRaises ==
    /\ pcMain = "poll"
    /\ stream = "running"
    /\ os_name # "nt"
    /\ pcMain' = "raised"
    /\ stream' = "closed"
    /\ UNCHANGED << os_name, key, building, heap, processor, published, writes, audioVars, harnessVars >>

\* lines 94-105 on Windows: the key polled, 'q', the index, the lookup in
\* choices (KeyError: pass), the sleep.  No more than MaxSwaps selections
\* are followed.
Poll ==
    /\ pcMain = "poll"
    /\ stream = "running"
    /\ os_name = "nt"
    /\ \E k \in Keys :
          IF k = ORD_q
          THEN key' = k /\ pcMain' = "stop"
          ELSE /\ key' = k - ORD_0
               /\ (k - ORD_0) \in DOMAIN choices => Len(heap) <= MaxSwaps
               /\ pcMain' = IF (k - ORD_0) \in DOMAIN choices THEN "new101" ELSE "poll"
    /\ UNCHANGED << os_name, building, heap, processor, stream, published, writes, audioVars, harnessVars >>

\* lines 107-109: stop_stream() returns once the callback is not running
StopStream ==
    /\ pcMain = "stop"
    /\ pcAudio \in {"idle", "aborted"}
    /\ stream' = "closed"
    /\ pcMain' = "done"
    /\ UNCHANGED << os_name, key, building, heap, processor, published, writes, audioVars, harnessVars >>

mainVars == << os_name, pcMain, key, building, processor, published >>

\* lines 64-66: PortAudio calls callback with a block of samples
CallbackEnter ==
    /\ stream = "running"
    /\ pcAudio = "idle"
    /\ \E block \in Blocks :
          /\ Len(captured) + Len(block) <= MaxSamples
          /\ audio_data' = block
          /\ captured' = captured \o block
    /\ n' = 1
    /\ pcAudio' = "load"
    /\ UNCHANGED << mainVars, heap, stream, self_, played, handled, writes, harnessVars >>

\* line 67: `processor` is read; not bound yet, NameError leaves callback and
\* PortAudio aborts the stream
LoadUnbound ==
    /\ pcAudio = "load"
    /\ processor = 0
    /\ pcAudio' = "aborted"
    /\ stream' = "aborted"
    /\ UNCHANGED << mainVars, heap, audio_data, n, self_, captured, played, handled, writes, harnessVars >>

\* line 67: `processor` is read and its process method is called; line 23:
\* self.x.push(sample) (AttributeError when the instance has no x yet)
LoadAndXPush ==
    /\ pcAudio = "load"
    /\ processor # 0
    /\ self_' = processor
    /\ IF heap[processor].stage = "new"
       THEN /\ pcAudio' = "aborted"
            /\ stream' = "aborted"
            /\ UNCHANGED << heap, writes >>
       ELSE /\ heap' = [heap EXCEPT ![processor] = XPush(@, audio_data[n])]
            /\ writes' = writes \cup { << "audio", processor, processor \in published >> }
            /\ pcAudio' = "compute"
            /\ UNCHANGED stream
    /\ UNCHANGED << mainVars, audio_data, n, captured, played, handled, harnessVars >>

\* lines 24-26: y = self._process(); self.y.push(y); return y; then the
\* assignment of line 67 and, after the last sample, line 68, where the
\* callback's locals end with its frame
ComputeAndYPush ==
    /\ pcAudio = "compute"
    /\ LET c    == Compute(heap[self_])
           last == n = Len(audio_data)
       IN  /\ heap' = [heap EXCEPT ![self_] = YPush(c.self, c.ret)]
           /\ \E out \in ToInt32(c.ret) :
                 /\ handled' = Append(handled, [obj |-> self_, x |-> audio_data[n],
                                                y |-> c.ret, out |-> out])
                 /\ audio_data' = IF last THEN << >> ELSE [audio_data EXCEPT ![n] = out]
                 /\ played' = IF last THEN played \o [audio_data EXCEPT ![n] = out] ELSE played
           /\ n' = IF last THEN 0 ELSE n + 1
           /\ pcAudio' = IF last THEN "idle" ELSE "load"
    /\ writes' = writes \cup { << "audio", self_, self_ \in published >> }
    /\ self_' = 0
    /\ UNCHANGED << mainVars, stream, captured, harnessVars >>

Main ==
    \/ OpenStream
    \/ New("new89", "init89")
    \/ RunInit("init89", "store89")
    \/ Store("store89", "poll")
    \/ LoopEnds
    \/ PollRaises
    \/ Poll
    \/ New("new101", "init101")
    \/ RunInit("init101", "store101")
    \/ Store("store101", "poll")
    \/ StopStream

Audio ==
    \/ CallbackEnter
    \/ LoadUnbound
    \/ LoadAndXPush
    \/ ComputeAndYPush

Next == Main \/ Audio

Spec == Init /\ [][Next]_vars

(***************************************************************************)
(* Properties of the program                                               *)
(***************************************************************************)
Objects == 1 .. Len(heap)

\* the process calls instance o has completed, in order
CallsOf(o) == SelectSeq(handled, LAMBDA h : h.obj = o)

\* the samples instance o was fed, and the values its process returned
FedTo(o) == [i \in 1 .. Len(CallsOf(o)) |-> CallsOf(o)[i].x]
GotFrom(o) == [i \in 1 .. Len(CallsOf(o)) |-> CallsOf(o)[i].y]

\* the values process returns when the samples xs are fed, one call each,
\* to the instance self
RECURSIVE RunOutputs(_, _)
RunOutputs(self, xs) ==
    IF xs = << >> THEN << >>
    ELSE LET r == Process(self, Head(xs))
         IN  << r.ret >> \o RunOutputs(r.self, Tail(xs))

\* a newly constructed instance of each class of choices
Fresh == [c \in { choices[i] : i \in DOMAIN choices } |-> Construct(c, RATE)]

\* instance o has not begun a process call
Unused(o) == (\A i \in 1 .. Len(handled) : handled[i].obj # o) /\ ~(pcAudio = "compute" /\ self_ = o)

\* the constructor has run to its end on p: both histories allocated with
\* max_delay + 1 slots, every parameter set
FullyConstructed(p) ==
    LET f == Fresh[p.cls]
    IN  /\ p.stage = "done"
        /\ p.SF = RATE
        /\ p.x.length = f.x.length /\ DOMAIN p.x.buf = DOMAIN f.x.buf
        /\ p.y.length = f.y.length /\ DOMAIN p.y.buf = DOMAIN f.y.buf
        /\ p.N = f.N
        /\ p.phi = f.phi

\* C1: hot swap isolation.  Whatever was processed before an instance was
\* bound to `processor`, the values the instance returns are those a newly
\* constructed instance of its class returns for the samples this instance
\* was fed, and each sample played is the int32 conversion of that value.
C1_HotSwapIsolation ==
    \A o \in Objects :
       /\ GotFrom(o) = RunOutputs(Fresh[heap[o].cls], FedTo(o))
       /\ \A i \in 1 .. Len(CallsOf(o)) : CallsOf(o)[i].out \in ToInt32(CallsOf(o)[i].y)

\* an instance with memory was swapped in after the first instance had
\* processed a non-zero sample, and its second output shows its own history
C1_Witness ==
    \E o \in Objects :
       /\ o >= 2
       /\ heap[o].cls = "Natural_Echo"
       /\ Len(FedTo(1)) >= 1 /\ FedTo(1)[1] # 0
       /\ Len(FedTo(o)) >= 2
       /\ GotFrom(o)[2] # FromInt(FedTo(o)[2])

\* C2: atomic publication.  The instance bound to `processor`, the instance
\* the callback took from it, and every instance ever bound are fully
\* constructed; an instance that has been bound and not yet used is exactly
\* as its constructor left it (histories zero, phase zero).
C2_AtomicPublication ==
    /\ processor # 0 => FullyConstructed(heap[processor])
    /\ pcAudio = "compute" => FullyConstructed(heap[self_])
    /\ \A o \in published :
          /\ FullyConstructed(heap[o])
          /\ Unused(o) => heap[o] = Fresh[heap[o].cls]

\* the callback is between two statements of process on the old instance
\* while main has allocated the next instance and not yet initialised it
C2_Witness ==
    /\ Len(heap) >= 2
    /\ building # 0
    /\ heap[building].stage = "new"
    /\ pcAudio = "compute"
    /\ self_ = processor
    /\ processor # building

\* C3: whenever the callback runs, `processor` is bound to a fully
\* constructed instance.
C3_BoundWhenCallbackRuns ==
    pcAudio # "idle" => (processor # 0 /\ FullyConstructed(heap[processor]))

\* the number of calls instance o has begun when its _process runs
CallNumber(o) == Len(CallsOf(o)) + 1

\* the input of call j of instance o (the call in progress included), 0
\* before the first call
InputOfCall(o, j) ==
    IF j < 1 THEN 0
    ELSE IF j <= Len(CallsOf(o)) THEN FromInt(FedTo(o)[j])
    ELSE FromInt(audio_data[n])

OutputOfCall(o, j) == IF j < 1 THEN 0 ELSE GotFrom(o)[j]

\* C6: history indexing inside _process.  When _process runs for the m-th
\* sample of an instance, x.get(k) is the input of call m-k and y.get(k) is
\* the value call m-k returned, for 1 <= k <= max_delay (zero before the
\* first call).
C6_HistoryIndexing ==
    pcAudio = "compute" =>
       LET o == self_
           m == CallNumber(o)
       IN  \A k \in 1 .. MaxDelayOf(heap[o].cls, RATE) :
              /\ Get(heap[o].x, k) = InputOfCall(o, m - k)
              /\ Get(heap[o].y, k) = OutputOfCall(o, m - k)

\* the input 1 followed by zeros
IsImpulse(xs) == Len(xs) >= 1 /\ xs[1] = 1 /\ \A i \in 2 .. Len(xs) : xs[i] = 0

\* C7: Recursive_Echo impulse response.  Fed 1 and then zeros, a new
\* Recursive_Echo returns non-zero values at the sample indices N, 2N and 3N
\* (the first sample has index 0), each a = 0.7 times the one a period
\* earlier, up to one unit of rounding.
C7_EchoDecay ==
    \A o \in Objects :
       (heap[o].cls = "Recursive_Echo" /\ heap[o].stage = "done" /\ IsImpulse(FedTo(o))) =>
          LET N   == heap[o].N
              out == GotFrom(o)
          IN  \A j \in 1 .. 3 :
                 Len(out) >= j * N + 1 =>
                    /\ out[j * N + 1] # 0
                    /\ j >= 2 => Abs(out[j * N + 1] - Mul(Recursive_Echo_a, out[(j - 1) * N + 1])) <= 1

\* C8: an out-of-range selection is a no-op.  A step of main at the poll of
\* the keyboard that neither quits ('q') nor selects an index of choices
\* leaves `processor` and every instance as they are, raises nothing out of
\* the loop, and the loop and the stream go on.
C8_OutOfRangeNoOp ==
    [][ (pcMain = "poll" /\ stream = "running" /\ (key' # key \/ pcMain' # pcMain)
            /\ pcMain' \notin {"new101", "stop"}) =>
           (pcMain' = "poll" /\ processor' = processor /\ heap' = heap /\ stream' = stream) ]_vars

\* C9: streaming engine.  The samples of the blocks handed to the callback
\* are processed one call each and in order; the samples returned are those
\* the calls produced; whenever the callback is not running every sample
\* handed to it has been processed and returned, so every block has been
\* answered by a block of the same length.
C9_OncePerSample ==
    /\ Len(handled) <= Len(captured)
    /\ \A i \in 1 .. Len(handled) : handled[i].x = captured[i]
    /\ Len(played) <= Len(handled)
    /\ \A i \in 1 .. Len(played) : played[i] = handled[i].out
    /\ pcAudio \notin {"load", "compute"} =>
          (Len(handled) = Len(captured) /\ Len(played) = Len(captured))

\* C10: exclusive mutation.  main assigns to the attributes of an instance
\* only before the instance is bound to `processor`, the callback only to
\* instances that have been bound; in the callback the instance is the one
\* it took from `processor`.
C10_ExclusiveMutation ==
    /\ \A w \in writes : w[3] = (w[1] = "audio")
    /\ building # 0 => building \notin published
    /\ pcAudio = "compute" => self_ \in published

\* an instance was initialised by main before it was bound and has since
\* been mutated by the callback, which is inside process on it while main
\* is initialising the next instance
C10_Witness ==
    /\ building # 0
    /\ << "main", building, FALSE >> \in writes
    /\ pcAudio = "compute"
    /\ << "main", self_, FALSE >> \in writes
    /\ << "audio", self_, TRUE >> \in writes

\* the process calls instance o has begun and whose _process has run
Computed(o) == Len(CallsOf(o))

\* C18: phase accumulator.  In every Wah and Tremolo, omega is 0 when the
\* constructor returns and phi is added to it once in each process call and
\* never otherwise, so after k calls on an instance omega = k * phi,
\* whatever the instances before it have accumulated: an instance newly
\* bound to `processor` starts from 0.
C18_PhaseAccumulator ==
    \A o \in Objects :
       (heap[o].cls \in {"Wah", "Tremolo"} /\ heap[o].stage = "done") =>
          /\ heap[o].phi = Fresh[heap[o].cls].phi
          /\ heap[o].phi > 0
          /\ heap[o].omega = Computed(o) * heap[o].phi

\* a Tremolo bound after the first instance had processed a sample has
\* completed two calls: its phase is twice its step, past one turn
C18_Witness ==
    \E o \in Objects :
       /\ o >= 2
       /\ heap[o].cls = "Tremolo"
       /\ Len(CallsOf(1)) >= 1
       /\ Computed(o) = 2
       /\ heap[o].omega = 2 * heap[o].phi
       /\ heap[o].omega > 2 * SCALE

\* C19: re-selection resets state.  Every key the poll returns that is an
\* index of choices starts a construction, also when it is the index of the
\* class of the instance in use; and the assignment that ends the
\* construction binds `processor` to an instance that was never bound
\* before and is exactly as its constructor leaves it (histories zero,
\* phase zero), while the instance bound until then keeps what it has
\* accumulated and is bound no more.
C19_ReselectionResets ==
    [][ /\ (pcMain = "poll" /\ << key, pcMain >>' # << key, pcMain >>
              /\ pcMain' \notin {"stop", "raised"} /\ key' \in DOMAIN choices)
           => pcMain' = "new101"
        /\ (pcMain = "store101" /\ pcMain' # pcMain)
           => /\ key \in DOMAIN choices
              /\ processor' # processor
              /\ processor' \notin published
              /\ heap'[processor'] = Fresh[choices[key]]
              /\ heap' = heap ]_vars

\* the index of the class in use was selected again after the instance in
\* use had processed a non-zero sample: a second instance of the class is
\* bound, with histories that are all zero
C19_Witness ==
    /\ Len(heap) = 2
    /\ processor = 2
    /\ heap[1].cls = heap[2].cls
    /\ Get(heap[1].x, 0) # 0
    /\ AllZero(heap[2].x.buf) /\ AllZero(heap[2].y.buf)

(***************************************************************************)
(* CircularBuffer on its own: a buffer of any maximum delay up to          *)
(* MaxRingDelay, and any sequence of pushes                                *)
(***************************************************************************)
RingValues == 0 .. MaxRingDelay + 2

ProgIdle == ProgInit /\ os_name = "nt"

RingInit ==
    /\ ProgIdle
    /\ ScanIdle
    /\ UnitIdle
    /\ \E length \in 0 .. MaxRingDelay : ring = CircularBuffer(length)
    /\ pushed = << >>

RingPush ==
    /\ Len(pushed) < MaxPushes
    /\ \E v \in RingValues :
          /\ ring' = Push(ring, v)
          /\ pushed' = Append(pushed, v)
    /\ UNCHANGED << progVars, scanVars, unitVars >>

RingNext == RingPush

SpecRing == RingInit /\ [][RingNext]_vars

Min(a, b) == IF a <= b THEN a ELSE b

\* C4: RingHistory round trip.  After the pushes v0..vk into a buffer of
\* maximum delay D, get(i) is v(k-i) for every i in 0 .. min(k, D); get(0) is
\* the value pushed last, also after the cursor has wrapped.
C4_RoundTrip ==
    LET k == Len(pushed) - 1
        D == ring.length - 1
    IN  k >= 0 => /\ \A i \in 0 .. Min(k, D) : Get(ring, i) = pushed[Len(pushed) - i]
                  /\ Get(ring, 0) = pushed[Len(pushed)]

\* the cursor has wrapped (more than D + 1 pushes) in a buffer of at least
\* two slots, and the oldest value kept differs from the newest
C4_Witness ==
    /\ ring.length >= 2
    /\ Len(pushed) > ring.length
    /\ Get(ring, ring.length - 1) = pushed[Len(pushed) - (ring.length - 1)]
    /\ Get(ring, ring.length - 1) # Get(ring, 0)

PairwiseDistinct(seq) == \A i, j \in 1 .. Len(seq) : i # j => seq[i] # seq[j]

Occurrences(f, D, v) == Cardinality({ i \in D : f[i] = v })

\* the offsets get is probed with: from below -C to above 2C for every
\* capacity C of the buffers tried
RingOffsets == -(2 * MaxRingDelay + 3) .. (2 * MaxRingDelay + 3)

\* C17: an out-of-range get aliases.  In every state of a buffer of
\* capacity C = max_delay + 1 and for every integer offset, negative or
\* above max_delay, get(offset) reads a slot of the array (no IndexError)
\* and returns what get(offset mod C) returns.
C17_GetAliases ==
    LET C == ring.length
    IN  \A k \in RingOffsets :
           /\ GetIndex(ring, k) \in DOMAIN ring.buf
           /\ Get(ring, k) = Get(ring, k % C)
           /\ Get(ring, k) = ring.buf[GetIndex(ring, k)]

\* a buffer of three slots holds three different values after its cursor
\* has wrapped: get(4) is get(1) and get(-1) is get(2), neither is get(0)
C17_Witness ==
    /\ ring.length = 3
    /\ Len(pushed) >= 4
    /\ Get(ring, 0) # Get(ring, 1) /\ Get(ring, 1) # Get(ring, 2) /\ Get(ring, 0) # Get(ring, 2)
    /\ Get(ring, 4) = Get(ring, 1)
    /\ Get(ring, -1) = Get(ring, 2)

\* C5: RingHistory eviction.  With C = maxDelay + 1: after C + 1 pairwise
\* distinct pushes get(maxDelay) is the second value pushed and not the
\* first; and once C values have been pushed the buffer holds exactly the
\* last C values pushed (each as often as it was pushed) and nothing older.
C5_Eviction ==
    LET C == ring.length
        L == Len(pushed)
    IN  /\ (L = C + 1 /\ PairwiseDistinct(pushed)) =>
              (Get(ring, C - 1) = pushed[2] /\ Get(ring, C - 1) # pushed[1])
        /\ L >= C =>
              \A v \in RingValues \cup {0} :
                 Occurrences(ring.buf, 0 .. C - 1, v) = Occurrences(pushed, L - C + 1 .. L, v)

\* C + 1 pairwise distinct values have been pushed into a buffer of three
\* slots: the first one is gone
C5_Witness ==
    /\ ring.length = 3
    /\ Len(pushed) = 4
    /\ PairwiseDistinct(pushed)
    /\ \A i \in 0 .. 2 : ring.buf[i] # pushed[1]

(***************************************************************************)
(* The scan of the processing classes on its own: the classes discovered   *)
(* in any order that up to MaxShuffles exchanges make of getmembers' order *)
(***************************************************************************)
ScanInit == ProgIdle /\ RingIdle /\ UnitIdle /\ ScanIdle

\* the members are discovered in another order
ScanShuffle ==
    /\ shuffles < MaxShuffles
    /\ \E i, j \in DOMAIN members :
          /\ i < j
          /\ members' = [members EXCEPT ![i] = members[j], ![j] = members[i]]
    /\ shuffles' = shuffles + 1
    /\ UNCHANGED << picked, progVars, ringVars, unitVars >>

\* lines 53-60, then choices[key] for a key of choices
ScanSelect ==
    /\ \E k \in DOMAIN ChoicesOf(members) :
          picked' = [key |-> k, cls |-> ChoicesOf(members)[k]]
    /\ UNCHANGED << members, shuffles, progVars, ringVars, unitVars >>

ScanNext == ScanShuffle \/ ScanSelect

SpecScan == ScanInit /\ [][ScanNext]_vars

OrderOf(nm) == ClassNamed(nm).order

\* C11: registry determinism.  In whatever order the classes are discovered,
\* index 0 of choices is Delta and the indices 1 .. count-1 are the eight
\* effects of guitar_effects in strictly ascending order of their `order`
\* attribute (Echo, Recursive_Echo, Natural_Echo, Reverb, Biquad, Fuzz, Wah,
\* Tremolo); RTProcessor and Delta are not among them; the class looked up
\* for an index is the one of that list; and the choices main uses are these.
C11_RegistryDeterminism ==
    LET ch    == ChoicesOf(members)
        count == Cardinality(DOMAIN ch)
    IN  /\ DOMAIN ch = 0 .. count - 1
        /\ ch[0] = "Delta"
        /\ [i \in 1 .. count - 1 |-> ch[i]] =
              << "Echo", "Recursive_Echo", "Natural_Echo", "Reverb", "Biquad", "Fuzz", "Wah", "Tremolo" >>
        /\ \A i \in 1 .. count - 2 : OrderOf(ch[i]) < OrderOf(ch[i + 1])
        /\ \A i \in 1 .. count - 1 : ch[i] \notin {"RTProcessor", "Delta"}
        /\ picked.key >= 0 => picked.cls = ch[picked.key]
        /\ choices = ch

\* the class with the largest order was discovered first, and index 8 was
\* looked up
C11_Witness ==
    /\ members[1] = "Tremolo"
    /\ picked = [key |-> 8, cls |-> "Tremolo"]

(***************************************************************************)
(* A processor on its own: an instance of any class of choices, built for  *)
(* any rate up to ModelRate, and fed up to MaxCalls samples that include   *)
(* the extremes of the sample format and the values around Fuzz's limit    *)
(***************************************************************************)
UnitClasses == { choices[i] : i \in DOMAIN choices }

UnitRates == 1 .. ModelRate

\* the largest integer sample not above Fuzz's limit
FuzzEdge == IntOf(Fuzz_limit)

UnitSamples ==
    {SAMPLE_MIN, -(FuzzEdge + 1), -FuzzEdge, 0, 1, FuzzEdge, FuzzEdge + 1, SAMPLE_MAX}

UnitInit ==
    /\ ProgIdle
    /\ RingIdle
    /\ ScanIdle
    /\ \E cls \in UnitClasses : unit = NewObject(cls)
    /\ before = unit
    /\ fed = << >>
    /\ got = << >>

\* cls(rate, channels)
UnitConstruct ==
    /\ unit.stage = "new"
    /\ \E rate \in UnitRates : unit' = Construct(unit.cls, rate)
    /\ before' = unit'
    /\ UNCHANGED << fed, got, progVars, ringVars, scanVars >>

\* unit.process(sample)
UnitProcess ==
    /\ unit.stage = "done"
    /\ Len(fed) < MaxCalls
    /\ \E sample \in UnitSamples :
          LET r == Process(unit, sample)
          IN  /\ unit' = r.self
              /\ fed' = Append(fed, sample)
              /\ got' = Append(got, r.ret)
    /\ before' = unit
    /\ UNCHANGED << progVars, ringVars, scanVars >>

UnitNext == UnitConstruct \/ UnitProcess

SpecUnit == UnitInit /\ [][UnitNext]_vars

\* C12: silence invariant.  An instance of any class of choices, newly
\* constructed and fed zeros only, has returned zero at every call (and zero
\* is the sample played), and every slot of both histories is zero.
C12_SilenceInvariant ==
    (unit.stage = "done" /\ AllZero(fed)) =>
       /\ AllZero(got)
       /\ \A i \in DOMAIN got : ToInt32(got[i]) = {0}
       /\ AllZero(unit.x.buf)
       /\ AllZero(unit.y.buf)

\* a Wah has processed three zeros, its oscillator has moved and every
\* output was zero
C12_Witness ==
    /\ unit.cls = "Wah"
    /\ unit.omega # 0
    /\ fed = << 0, 0, 0 >>
    /\ got = << 0, 0, 0 >>

\* C13: identity processor.  A Delta returns, at every call, exactly the
\* sample the call was given (and the sample played is that sample),
\* however many samples it has processed before.
C13_Identity ==
    (unit.cls = "Delta" /\ unit.stage = "done") =>
       /\ Len(got) = Len(fed)
       /\ \A i \in DOMAIN fed : got[i] = FromInt(fed[i]) /\ ToInt32(got[i]) = {fed[i]}

\* a Delta has processed three different samples, the extremes of the
\* sample format among them, and its two-slot histories have wrapped
C13_Witness ==
    /\ unit.cls = "Delta"
    /\ fed = << SAMPLE_MAX, SAMPLE_MIN, 1 >>
    /\ got = << FromInt(SAMPLE_MAX), FromInt(SAMPLE_MIN), FromInt(1) >>
    /\ unit.x.ix = 0

Advanced(pre, post, sample, ret) ==
    /\ Get(post.x, 0) = FromInt(sample)
    /\ Get(post.y, 0) = ret
    /\ post.x.length = pre.x.length /\ post.y.length = pre.y.length
    /\ \A k \in 1 .. pre.x.length - 1 :
          /\ Get(post.x, k) = Get(pre.x, k - 1)
          /\ Get(post.y, k) = Get(pre.y, k - 1)
    /\ post.x.ix = (pre.x.ix + 1) % pre.x.length
    /\ post.y.ix = (pre.y.ix + 1) % pre.y.length
    /\ \A j \in DOMAIN pre.x.buf : j # post.x.ix => post.x.buf[j] = pre.x.buf[j]
    /\ \A j \in DOMAIN pre.y.buf : j # post.y.ix => post.y.buf[j] = pre.y.buf[j]

\* C15 as stated: after a process(s) call that returned r, x.get(0) = s,
\* y.get(0) = r, x.get(k) and y.get(k) for 1 <= k <= max_delay are what
\* x.get(k-1) and y.get(k-1) were before the call, each history has
\* advanced by one push, and no attribute of the instance other than the
\* two histories and the phase omega has changed.
C15_OnlyHistoriesAndPhase ==
    Len(fed) >= 1 =>
       /\ Advanced(before, unit, fed[Len(fed)], got[Len(got)])
       /\ [unit EXCEPT !.x = before.x, !.y = before.y, !.omega = before.omega] = before

\* C15 (amended): as above, where the attributes a call may change are the
\* two histories, the phase omega and, in a Wah, the coefficients b1 and a1
\* that _process recomputes from the phase; in every other class b1 and a1
\* stay as they are.
C15_ProcessFrame ==
    Len(fed) >= 1 =>
       /\ Advanced(before, unit, fed[Len(fed)], got[Len(got)])
       /\ [unit EXCEPT !.x = before.x, !.y = before.y, !.omega = before.omega,
                        !.b1 = before.b1, !.a1 = before.a1] = before
       /\ unit.cls # "Wah" => (unit.b1 = before.b1 /\ unit.a1 = before.a1)
       /\ unit.cls \notin {"Wah", "Tremolo"} => unit.omega = before.omega

\* a Natural_Echo whose histories hold more than two slots has completed
\* its third call: three non-zero inputs and outputs are in the histories
C15_Witness ==
    /\ unit.cls = "Natural_Echo"
    /\ unit.x.length >= 4
    /\ Len(fed) = 3
    /\ \A k \in 0 .. 2 : Get(unit.x, k) # 0 /\ Get(unit.y, k) # 0
    /\ Get(unit.y, 1) = got[2] /\ Get(unit.y, 2) = got[1]

\* C16: history sizing.  For every class of choices and every rate from 1
\* up, every offset _process passes to x.get or y.get is within
\* 0 .. max_delay of the history it reads, whose array has max_delay + 1
\* slots; N is int(0.3 * SF) in the echoes and int(0.02 * SF) in Reverb.
C16_HistorySizing ==
    unit.stage = "done" =>
       /\ unit.x.length = MaxDelayOf(unit.cls, unit.SF) + 1
       /\ unit.y.length = MaxDelayOf(unit.cls, unit.SF) + 1
       /\ Cardinality(DOMAIN unit.x.buf) = unit.x.length
       /\ Cardinality(DOMAIN unit.y.buf) = unit.y.length
       /\ \A k \in XOffsets(unit) : 0 <= k /\ k <= unit.x.length - 1
       /\ \A k \in YOffsets(unit) : 0 <= k /\ k <= unit.y.length - 1
       /\ unit.cls \in {"Echo", "Recursive_Echo", "Natural_Echo"} =>
             unit.N = IntOf(Mul(Echo_delay, FromInt(unit.SF)))
       /\ unit.cls = "Reverb" => unit.N = IntOf(Mul(Reverb_delay, FromInt(unit.SF)))

\* an Echo whose third tap is at least four samples back has processed
\* samples
C16_Witness ==
    /\ unit.cls = "Echo"
    /\ unit.stage = "done"
    /\ 2 * unit.N >= 4
    /\ Len(fed) >= 2

\* the calls whose samples Echo's three taps read at call i
EchoTaps(i, N) == {i, i - N, i - 2 * N} \cap (1 .. i)

MaxAbs(S) == IF S = {} THEN 0 ELSE CHOOSE m \in S : \A v \in S : v <= m

\* C20: Echo never amplifies.  a, b and c are positive and
\* norm * (a + b + c) is at most 1, so the magnitude of every value an Echo
\* returns is at most the largest magnitude among the samples its three
\* taps read (x[n], x[n-N], x[n-2N]); for samples of the stream's format
\* the value converts back to a sample of the format without overflow.
C20_EchoNeverAmplifies ==
    (unit.cls = "Echo" /\ unit.stage = "done") =>
       /\ Echo_a > 0 /\ Echo_b > 0 /\ Echo_c > 0
       /\ Mul(Echo_norm, Echo_a + Echo_b + Echo_c) <= FromInt(1)
       /\ \A i \in DOMAIN got :
             LET M == MaxAbs({ Abs(fed[j]) : j \in EchoTaps(i, unit.N) })
             IN  /\ Abs(got[i]) <= FromInt(M)
                 /\ IntOf(got[i]) >= SAMPLE_MIN /\ IntOf(got[i]) <= SAMPLE_MAX
                 /\ ToInt32(got[i]) = {IntOf(got[i])}

\* an Echo with N = 1 has been fed the largest sample three times: all three
\* taps read it, and the output is within two units of it
C20_Witness ==
    /\ unit.cls = "Echo"
    /\ unit.N = 1
    /\ fed = << SAMPLE_MAX, SAMPLE_MAX, SAMPLE_MAX >>
    /\ got[3] >= FromInt(SAMPLE_MAX - 2)
    /\ got[3] <= FromInt(SAMPLE_MAX)

=============================================================================
